---- MODULE Spec2Model ----
(***************************************************************************)
(* Model of coc/clans.py: the Clan entity with its two lazily materialized *)
(* collections (labels, members) and the lookups get_member and            *)
(* get_member_by.                                                          *)
(*                                                                         *)
(* Strings that take part in tag normalization are sequences of one-       *)
(* character strings.  An Optional value is the record None or Some(v).    *)
(***************************************************************************)
EXTENDS Integers, Sequences, FiniteSets

VARIABLES
    data,             \* the decoded record the instance was built from
    points,           \* self.points
    _labels,          \* self._labels : None or Some(list of Label)
    _members,         \* self._members : None or Some(dict tag -> ClanMember)
    __iter_labels,    \* self.__iter_labels : index of the next 'labels' sub-record the generator yields
    __iter_members,   \* self.__iter_members : index of the next 'memberList' sub-record the generator yields
    labelCtor,        \* labelCtor[i] : number of label_cls calls on the i-th 'labels' sub-record
    memberCtor,       \* memberCtor[i] : number of member_cls calls on the i-th 'memberList' sub-record
    labelsDrains,     \* number of times __iter_labels has been iterated
    membersDrains,    \* number of times __iter_members has been iterated
    labelsStores,     \* number of assignments to self._labels after __init__
    membersStores,    \* number of assignments to self._members after __init__
    labelsAccessed,   \* labels has been read at least once
    membersAccessed,  \* members, get_member or get_member_by has been called at least once
    firstLabels,      \* None or Some(result of the first read of labels)
    firstMembers,     \* None or Some(result of the first read of members)
    lastCall,         \* the latest call on the instance: op, arg, result, cache state before it
    cls,              \* the class of the instance: "Clan" or "RankedClan"
    fields,           \* the scalar and lookup attributes of the instance, by attribute name
    label_cls,        \* self.label_cls
    member_cls,       \* self.member_cls
    gen_cls,          \* the locals label_cls and member_cls the two generators closed over
    labelsBuiltBy,    \* the class whose constructor built the elements of self._labels
    membersBuiltBy,   \* the class whose constructor built the elements of self._members
    fails,            \* the sub-records on which the element constructor raises
    threads           \* the callers that run a property step by step

vars == <<data, points, _labels, _members, __iter_labels, __iter_members,
          labelCtor, memberCtor, labelsDrains, membersDrains, labelsStores,
          membersStores, labelsAccessed, membersAccessed, firstLabels,
          firstMembers, lastCall, cls, fields, label_cls, member_cls, gen_cls,
          labelsBuiltBy, membersBuiltBy, fails, threads>>

\* what no call on the instance assigns
fixed == <<data, points, cls, fields, gen_cls, fails>>

\* what belongs to the labels collection
labelSide == <<_labels, __iter_labels, labelCtor, labelsDrains, labelsStores,
               labelsAccessed, firstLabels, labelsBuiltBy>>

\* what belongs to the members collection
memberSide == <<_members, __iter_members, memberCtor, membersDrains, membersStores,
                membersAccessed, firstMembers, membersBuiltBy>>

----------------------------------------------------------------------------
(* Bounds of the model *)

MaxLabels == 2

MaxMembers == 3

MaxStores == 2

MaxGone == 2

----------------------------------------------------------------------------
(* Optional values and small helpers *)

None == [some |-> FALSE]

Some(v) == [some |-> TRUE, val |-> v]

KeyError == [some |-> FALSE, raised |-> "KeyError"]

TypeError == [some |-> FALSE, raised |-> "TypeError"]

\* the error correct_tag reports for a malformed tag
InvalidTag == [some |-> FALSE, raised |-> "InvalidTag"]

\* the error an element constructor reports
CtorError == [some |-> FALSE, raised |-> "CtorError"]

SeqsUpTo(S, n) == UNION {[1..k -> S] : k \in 0..n}

----------------------------------------------------------------------------
(* Collaborators: correct_tag, Label, ClanMember, utils.get *)

Space == " "

Marker == "#"

Upper(c) == CASE c = "a" -> "A"
              [] c = "b" -> "B"
              [] c = "c" -> "C"
              [] OTHER -> c

RECURSIVE LStrip(_)
LStrip(s) == IF s # <<>> /\ Head(s) = Space THEN LStrip(Tail(s)) ELSE s

RECURSIVE RStrip(_)
RStrip(s) == IF s # <<>> /\ s[Len(s)] = Space THEN RStrip(SubSeq(s, 1, Len(s) - 1)) ELSE s

UpperAll(s) == [i \in 1..Len(s) |-> Upper(s[i])]

\* trim, upper-case, enforce the leading marker
NormalizeTag(raw) ==
    LET t == UpperAll(RStrip(LStrip(raw)))
    IN  IF t # <<>> /\ Head(t) = Marker THEN t ELSE <<Marker>> \o t

\* Label(data=ldata, client=...) built from the i-th sub-record
Label(ldata, i) == [id |-> ldata.id, src |-> i]

\* ClanMember(data=mdata, client=..., clan=self) built from the i-th sub-record
ClanMember(mdata, i) == [tag |-> mdata.tag, level |-> mdata.level, src |-> i]

\* the predicate of utils.get: every supplied attribute equals the element's
Matches(elem, attrs) == \A a \in DOMAIN attrs : attrs[a] = None \/ attrs[a] = Some(elem[a])

\* utils.get(iterable, **attrs): the first matching element, or None
get(iterable, attrs) ==
    LET hits == {i \in 1..Len(iterable) : Matches(iterable[i], attrs)}
    IN  IF hits = {} THEN None
        ELSE Some(iterable[CHOOSE i \in hits : \A j \in hits : i <= j])

----------------------------------------------------------------------------
(* Python dict with insertion order: a sequence of [key, val] with unique keys *)

DictHas(d, k) == \E i \in 1..Len(d) : d[i].key = k

\* d.setdefault(k, v) in place of d[k] = v : the first value of a key stays
DictSetDefault(d, k, v) ==
    IF DictHas(d, k) THEN d ELSE Append(d, [key |-> k, val |-> v])

\* d[k] = v : an existing key keeps its position and takes the new value
DictSet(d, k, v) ==
    IF DictHas(d, k)
    THEN [i \in 1..Len(d) |-> IF d[i].key = k THEN [key |-> k, val |-> v] ELSE d[i]]
    ELSE Append(d, [key |-> k, val |-> v])

\* d[k], raising KeyError when k is absent
DictGet(d, k) ==
    IF DictHas(d, k)
    THEN Some(d[CHOOSE i \in 1..Len(d) : d[i].key = k].val)
    ELSE KeyError

\* list(d.values())
DictValues(d) == [i \in 1..Len(d) |-> d[i].val]

\* a comprehension that keys a member by its normalized tag
KeyOfNormalized(m) == NormalizeTag(m.tag)

\* the key expression of the dict comprehension: m.tag as the member stores it
KeyOf(m) == m.tag

\* {m.tag: m for m in ms}
RECURSIVE DictOf(_, _)
DictOf(d, ms) == IF ms = <<>> THEN d ELSE DictOf(DictSet(d, KeyOf(Head(ms)), Head(ms)), Tail(ms))

----------------------------------------------------------------------------
(* The decoded record: every key is Missing or holds a value *)

Missing == [some |-> FALSE, missing |-> TRUE]

\* data.get(key, default)
data_get(d, key, default) ==
    IF key \notin DOMAIN d \/ d[key] = Missing THEN default ELSE d[key]

LabelRecords == {[id |-> 1], [id |-> 2]}

MemberRecords ==
    { [tag |-> <<"#", "A">>, level |-> 1],
      [tag |-> <<"#", "A">>, level |-> 2],
      [tag |-> <<"#", "B">>, level |-> 1],
      [tag |-> <<"#", "a">>, level |-> 2] }

EmptyRecord == [clanPoints |-> Missing, labels |-> Missing, memberList |-> Missing]

Records ==
    { [clanPoints |-> Some(10), labels |-> ls, memberList |-> ms] :
        ls \in {Missing} \cup {Some(l) : l \in SeqsUpTo(LabelRecords, MaxLabels)},
        ms \in {Missing} \cup {Some(m) : m \in SeqsUpTo(MemberRecords, MaxMembers)} }
    \cup {EmptyRecord}

\* arguments of the calls
TagInputs ==
    { <<"#", "A">>, <<"#", "a">>, <<" ", "#", "a", " ">>, <<"a">>,
      <<"#", "B">>, <<"#", "C">> }

\* keyword arguments of get_member_by: each attribute is supplied (Some) or not (None)
AttrSets ==
    { [tag |-> None, level |-> None],
      [tag |-> None, level |-> Some(1)],
      [tag |-> None, level |-> Some(2)],
      [tag |-> Some(<<"#", "A">>), level |-> None],
      [tag |-> Some(<<"#", "B">>), level |-> None],
      [tag |-> Some(<<"#", "A">>), level |-> Some(2)] }

----------------------------------------------------------------------------
(* Construction *)

labelsSource(d) == data_get(d, "labels", Some(<<>>)).val

memberSource(d) == data_get(d, "memberList", Some(<<>>)).val

\* the data key each attribute of Clan._from_data is read from
ClanKeys ==
    [ points            |-> "clanPoints",
      versus_points     |-> "clanVersusPoints",
      member_count      |-> "members",
      location          |-> "location",
      type              |-> "type",
      required_trophies |-> "requiredTrophies",
      war_frequency     |-> "warFrequency",
      war_win_streak    |-> "warWinStreak",
      war_wins          |-> "warWins",
      war_ties          |-> "warTies",
      war_losses        |-> "warLosses",
      public_war_log    |-> "isWarLogPublic",
      description       |-> "description",
      war_league        |-> "warLeague" ]

\* the data key each attribute of RankedClan._from_data is read from
RankedClanKeys ==
    [ points        |-> "clanPoints",
      versus_points |-> "clanVersusPoints",
      member_count  |-> "members",
      location      |-> "location",
      rank          |-> "rank",
      previous_rank |-> "previousRank" ]

KeysOf(c) == IF c = "Clan" THEN ClanKeys ELSE RankedClanKeys

\* the attributes resolved with try_enum, and the enum each resolves to
EnumOf == [location |-> "Location", war_league |-> "WarLeague"]

\* try_enum(enum, data=value): None for absent data, else the resolved value
try_enum(enum, value) ==
    IF value = None THEN None ELSE Some([enum |-> enum, data |-> value.val])

\* data_get(key) with 0 in place of the default None
scalar_get_zero(d, key) == data_get(d, key, Some(0))

\* data_get(key)
scalar_get(d, key) == data_get(d, key, None)

\* the attributes _from_data assigns before it creates the generators
ScalarFields(c, d) ==
    [ a \in DOMAIN KeysOf(c) |->
        IF a \in DOMAIN EnumOf
        THEN try_enum(EnumOf[a], scalar_get(d, KeysOf(c)[a]))
        ELSE scalar_get(d, KeysOf(c)[a]) ]

\* a list comprehension in place of the generator expression: the elements are
\* built while the instance is constructed
_from_data_eager(d) ==
    [ points         |-> data_get(d, "clanPoints", None),
      __iter_labels  |-> 1,
      __iter_members |-> 1,
      labelCtor      |-> [i \in 1..Len(labelsSource(d)) |-> 1],
      memberCtor     |-> [i \in 1..Len(memberSource(d)) |-> 1] ]

\* Clan._from_data: scalar fields are read, the two generators are created and not started
_from_data(d) ==
    [ points         |-> data_get(d, "clanPoints", None),
      __iter_labels  |-> 1,
      __iter_members |-> 1,
      labelCtor      |-> [i \in 1..Len(labelsSource(d)) |-> 0],
      memberCtor     |-> [i \in 1..Len(memberSource(d)) |-> 0] ]

\* label_cls = self.label_cls and member_cls = self.member_cls: the locals of
\* _from_data the generator expressions close over
Captured(lc, mc) == [labels |-> lc, members |-> mc]

\* no caller runs a property step by step
NoThreads == [pc |-> <<>>]

Init ==
    /\ data \in Records
    /\ _labels = None
    /\ _members = None
    /\ points = _from_data(data).points
    /\ __iter_labels = _from_data(data).__iter_labels
    /\ __iter_members = _from_data(data).__iter_members
    /\ labelCtor = _from_data(data).labelCtor
    /\ memberCtor = _from_data(data).memberCtor
    /\ labelsDrains = 0
    /\ membersDrains = 0
    /\ labelsStores = 0
    /\ membersStores = 0
    /\ labelsAccessed = FALSE
    /\ membersAccessed = FALSE
    /\ firstLabels = None
    /\ firstMembers = None
    /\ lastCall = [op |-> "__init__", arg |-> None, result |-> None,
                   pre |-> None, repeat |-> FALSE]
    /\ cls = "Clan"
    /\ fields = ScalarFields("Clan", data)
    /\ label_cls = "Label"
    /\ member_cls = "ClanMember"
    /\ gen_cls = Captured(label_cls, member_cls)
    /\ labelsBuiltBy = "none"
    /\ membersBuiltBy = "none"
    /\ fails = [labels |-> {}, members |-> {}]
    /\ threads = NoThreads

----------------------------------------------------------------------------
(* The pending generators *)

\* next(generator) in place of the loop: one sub-record is pulled
DrainedFirstOnly(pos, src) == IF pos <= Len(src) THEN {pos} ELSE {}

\* the sub-records a 'for' loop pulls from a generator standing at pos: all that are left
Drained(pos, src) == pos..Len(src)

\* the position of the generator after that loop
After(pos, src) == pos + Cardinality(Drained(pos, src))

\* what iterating __iter_labels from position pos yields
PendingLabels(pos) ==
    [k \in 1..Cardinality(Drained(pos, labelsSource(data))) |->
        Label(labelsSource(data)[pos + k - 1], pos + k - 1)]

\* what iterating __iter_members from position pos yields
PendingMembers(pos) ==
    [k \in 1..Cardinality(Drained(pos, memberSource(data))) |->
        ClanMember(memberSource(data)[pos + k - 1], pos + k - 1)]

\* constructor counts after that loop
Counted(ctor, pos, src) ==
    [i \in DOMAIN ctor |-> IF i \in Drained(pos, src) THEN ctor[i] + 1 ELSE ctor[i]]

----------------------------------------------------------------------------
(* An element constructor that raises inside a generator *)

\* the first sub-record from pos on whose constructor raises, 0 when none does
FailAt(pos, src, bad) ==
    LET r == {i \in pos..Len(src) : i \in bad}
    IN  IF r = {} THEN 0 ELSE CHOOSE i \in r : \A j \in r : i <= j

\* constructor counts after the loop that ended in the constructor call on failAt
CountedRaise(ctor, pos, failAt) ==
    [i \in DOMAIN ctor |-> IF i >= pos /\ i <= failAt THEN ctor[i] + 1 ELSE ctor[i]]

\* an iterator that goes on behind the element that raised (map in place of a generator)
AfterRaiseResumes(src, failAt) == failAt + 1

\* the position of a generator after an exception left it: it is finished
AfterRaise(src, failAt) == Len(src) + 1

----------------------------------------------------------------------------
(* Clan.labels *)

\* a list without repeated label ids in place of list(self.__iter_labels)
RECURSIVE Dedup(_, _)
Dedup(seen, ls) ==
    IF ls = <<>> THEN <<>>
    ELSE IF Head(ls).id \in seen THEN Dedup(seen, Tail(ls))
         ELSE <<Head(ls)>> \o Dedup(seen \cup {Head(ls).id}, Tail(ls))

ListLabelsDedup(pos) == Dedup({}, PendingLabels(pos))

\* list(self.__iter_labels)
ListLabels(pos) == PendingLabels(pos)

\* the test of the labels property: the cache is used when it is not None
LabelsCached(cache) == cache # None

LabelsReturn == IF LabelsCached(_labels) THEN _labels.val ELSE ListLabels(__iter_labels)

\* list(self.__iter_labels) raises: the constructor call on a sub-record raised
LabelsRaises ==
    /\ ~LabelsCached(_labels)
    /\ FailAt(__iter_labels, labelsSource(data), fails.labels) # 0

\* the labels property left by the exception of an element constructor
labels_raise ==
    LET failAt == FailAt(__iter_labels, labelsSource(data), fails.labels)
    IN  /\ __iter_labels' = AfterRaise(labelsSource(data), failAt)
        /\ labelCtor' = CountedRaise(labelCtor, __iter_labels, failAt)
        /\ labelsDrains' = labelsDrains + 1
        /\ labelsAccessed' = TRUE
        /\ lastCall' = [op |-> "labels", arg |-> None, result |-> CtorError,
                        pre |-> _labels, repeat |-> firstLabels # None]
        /\ UNCHANGED <<_labels, labelsStores, firstLabels, labelsBuiltBy>>

\* a labels property that drains the members generator
labels_of_members ==
    /\ IF LabelsCached(_labels)
       THEN UNCHANGED <<_labels, __iter_members, memberCtor, labelsStores>>
       ELSE /\ _labels' = Some(PendingMembers(__iter_members))
            /\ __iter_members' = After(__iter_members, memberSource(data))
            /\ memberCtor' = Counted(memberCtor, __iter_members, memberSource(data))
            /\ labelsStores' = labelsStores + 1
    /\ labelsAccessed' = TRUE
    /\ lastCall' = [op |-> "labels", arg |-> None,
                    result |-> IF LabelsCached(_labels) THEN _labels.val
                               ELSE PendingMembers(__iter_members),
                    pre |-> _labels, repeat |-> firstLabels # None]
    /\ UNCHANGED <<__iter_labels, labelCtor, labelsDrains, firstLabels, labelsBuiltBy>>
    /\ UNCHANGED <<_members, membersDrains, membersStores, membersAccessed,
                   firstMembers, membersBuiltBy>>
    /\ UNCHANGED <<fixed, label_cls, member_cls, threads>>

labels ==
    /\ IF LabelsRaises
       THEN labels_raise
       ELSE /\ IF LabelsCached(_labels)
               THEN UNCHANGED <<_labels, __iter_labels, labelCtor, labelsDrains,
                                labelsStores, labelsBuiltBy>>
               ELSE /\ _labels' = Some(ListLabels(__iter_labels))
                    /\ __iter_labels' = After(__iter_labels, labelsSource(data))
                    /\ labelCtor' = Counted(labelCtor, __iter_labels, labelsSource(data))
                    /\ labelsDrains' = labelsDrains + 1
                    /\ labelsStores' = labelsStores + 1
                    /\ labelsBuiltBy' = IF ListLabels(__iter_labels) = <<>>
                                        THEN labelsBuiltBy ELSE gen_cls.labels
            /\ labelsAccessed' = TRUE
            /\ firstLabels' = IF firstLabels = None THEN Some(LabelsReturn) ELSE firstLabels
            /\ lastCall' = [op |-> "labels", arg |-> None, result |-> LabelsReturn,
                            pre |-> _labels, repeat |-> firstLabels # None]
    /\ UNCHANGED <<fixed, memberSide, label_cls, member_cls, threads>>

----------------------------------------------------------------------------
(* Clan.members *)

\* {m.tag: m for m in self.__iter_members}
DictMembers(pos) == DictOf(<<>>, PendingMembers(pos))

\* dict_members = self._members = {m.tag: m for m in self.__iter_members}
MaterializeMembers ==
    /\ _members' = Some(DictMembers(__iter_members))
    /\ __iter_members' = After(__iter_members, memberSource(data))
    /\ memberCtor' = Counted(memberCtor, __iter_members, memberSource(data))
    /\ membersDrains' = membersDrains + 1
    /\ membersStores' = membersStores + 1
    /\ membersBuiltBy' = IF DictMembers(__iter_members) = <<>>
                         THEN membersBuiltBy ELSE gen_cls.members

\* the dict comprehension raises: the constructor call on a sub-record raised
MaterializeRaises == FailAt(__iter_members, memberSource(data), fails.members) # 0

\* a call op(arg) left by the exception of an element constructor
members_raise(op, arg) ==
    LET failAt == FailAt(__iter_members, memberSource(data), fails.members)
    IN  /\ __iter_members' = AfterRaise(memberSource(data), failAt)
        /\ memberCtor' = CountedRaise(memberCtor, __iter_members, failAt)
        /\ membersDrains' = membersDrains + 1
        /\ membersAccessed' = TRUE
        /\ lastCall' = [op |-> op, arg |-> arg, result |-> CtorError,
                        pre |-> _members, repeat |-> membersAccessed]
        /\ UNCHANGED <<_members, membersStores, firstMembers, membersBuiltBy>>

\* a members property that never takes its cache
MembersNeverCached(cache) == FALSE

\* the test of the members property: the cache is used when it is not None
MembersCached(cache) == cache # None

\* the list the members property returns
MembersReturn ==
    DictValues(IF MembersCached(_members) THEN _members.val ELSE DictMembers(__iter_members))

\* the state change of the members property
MembersStep ==
    IF MembersCached(_members)
    THEN UNCHANGED <<_members, __iter_members, memberCtor, membersDrains, membersStores,
                     membersBuiltBy>>
    ELSE MaterializeMembers

members ==
    /\ IF ~MembersCached(_members) /\ MaterializeRaises
       THEN members_raise("members", None)
       ELSE /\ MembersStep
            /\ membersAccessed' = TRUE
            /\ firstMembers' = IF firstMembers = None THEN Some(MembersReturn) ELSE firstMembers
            /\ lastCall' = [op |-> "members", arg |-> None, result |-> MembersReturn,
                            pre |-> _members, repeat |-> firstMembers # None]
    /\ UNCHANGED <<fixed, labelSide, label_cls, member_cls, threads>>

----------------------------------------------------------------------------
(* Clan.get_member *)

BadChars == {"!"}

\* correct_tag rejects a tag that is blank or holds a character no tag has
Rejects(raw) == RStrip(LStrip(raw)) = <<>> \/ \E i \in 1..Len(raw) : raw[i] \in BadChars

\* 'if not dict_members': None and the empty dict are both falsy
NotDictMembers(cache) == cache = None \/ cache.val = <<>>

\* 'dict_members = self._members or {}' : no materialization before the lookup
LookupDictNoTrigger(cache, pos) == IF cache = None THEN <<>> ELSE cache.val

\* dict_members after the 'if not dict_members' statement
LookupDict(cache, pos) == IF NotDictMembers(cache) THEN DictMembers(pos) ELSE cache.val

\* return dict_members[tag] without the try statement
TryLookupUncaught(d, tag) == DictGet(d, tag)

\* try: return dict_members[tag]  except KeyError: return None
TryLookup(d, tag) == IF DictGet(d, tag) = KeyError THEN None ELSE DictGet(d, tag)

\* get_member without the correct_tag call
GetMemberReturnRaw(cache, pos, tag) == TryLookup(LookupDict(cache, pos), tag)

\* the value get_member(tag) returns on an instance with this cache and generator position
GetMemberReturn(cache, pos, tag) == TryLookup(LookupDict(cache, pos), NormalizeTag(tag))

\* get_member from 'dict_members = self._members' on, for a tag correct_tag accepted
get_member_accepted(tag) ==
    /\ NotDictMembers(_members) => membersStores < MaxStores
    /\ IF NotDictMembers(_members) /\ MaterializeRaises
       THEN members_raise("get_member", tag)
       ELSE /\ IF NotDictMembers(_members)
               THEN MaterializeMembers
               ELSE UNCHANGED <<_members, __iter_members, memberCtor, membersDrains,
                                membersStores, membersBuiltBy>>
            /\ membersAccessed' = TRUE
            /\ lastCall' = [op |-> "get_member", arg |-> tag,
                            result |-> GetMemberReturn(_members, __iter_members, tag),
                            pre |-> _members, repeat |-> membersAccessed]
            /\ UNCHANGED firstMembers

\* get_member left by the error of correct_tag
get_member_rejected(tag) ==
    /\ lastCall' = [op |-> "get_member", arg |-> tag, result |-> InvalidTag,
                    pre |-> _members, repeat |-> membersAccessed]
    /\ UNCHANGED memberSide

\* get_member that calls correct_tag behind the 'if not dict_members' statement
get_member_late_check(tag) ==
    /\ IF Rejects(tag)
       THEN /\ IF NotDictMembers(_members)
               THEN MaterializeMembers
               ELSE UNCHANGED <<_members, __iter_members, memberCtor, membersDrains,
                                membersStores, membersBuiltBy>>
            /\ lastCall' = [op |-> "get_member", arg |-> tag, result |-> InvalidTag,
                            pre |-> _members, repeat |-> membersAccessed]
            /\ UNCHANGED <<membersAccessed, firstMembers>>
       ELSE get_member_accepted(tag)
    /\ UNCHANGED <<fixed, labelSide, label_cls, member_cls, threads>>

get_member(tag) ==
    /\ IF Rejects(tag) THEN get_member_rejected(tag) ELSE get_member_accepted(tag)
    /\ UNCHANGED <<fixed, labelSide, label_cls, member_cls, threads>>

----------------------------------------------------------------------------
(* Clan.get_member_by *)

\* get(self.members, **attrs)
GetMemberByReturn(ms, attrs) == get(ms, attrs)

\* a scan of the cache as it stands, without reading the members property
get_member_by_cache_only(attrs) ==
    /\ membersAccessed' = TRUE
    /\ lastCall' = [op |-> "get_member_by", arg |-> attrs,
                    result |-> GetMemberByReturn(
                                  IF _members = None THEN <<>> ELSE DictValues(_members.val),
                                  attrs),
                    pre |-> _members, repeat |-> membersAccessed]
    /\ UNCHANGED <<_members, __iter_members, memberCtor, membersDrains, membersStores,
                   firstMembers, membersBuiltBy>>
    /\ UNCHANGED <<fixed, labelSide, label_cls, member_cls, threads>>

get_member_by(attrs) ==
    /\ IF ~MembersCached(_members) /\ MaterializeRaises
       THEN members_raise("get_member_by", attrs)
       ELSE /\ MembersStep
            /\ membersAccessed' = TRUE
            /\ lastCall' = [op |-> "get_member_by", arg |-> attrs,
                            result |-> GetMemberByReturn(MembersReturn, attrs),
                            pre |-> _members, repeat |-> membersAccessed]
            /\ UNCHANGED firstMembers
    /\ UNCHANGED <<fixed, labelSide, label_cls, member_cls, threads>>

----------------------------------------------------------------------------
(* Reading a scalar field *)

read_points ==
    /\ lastCall' = [op |-> "points", arg |-> None, result |-> points,
                    pre |-> None, repeat |-> FALSE]
    /\ UNCHANGED <<fixed, labelSide, memberSide, label_cls, member_cls, threads>>

----------------------------------------------------------------------------

Next ==
    \/ labels
    \/ members
    \/ \E tag \in TagInputs : get_member(tag)
    \/ \E attrs \in AttrSets : get_member_by(attrs)
    \/ read_points

Spec == Init /\ [][Next]_vars

----------------------------------------------------------------------------
(* Records with missing and null keys, for Clan and RankedClan *)

\* a value for every key of a full record
Sample ==
    [ clanPoints       |-> Some(10),
      clanVersusPoints |-> Some(20),
      members          |-> Some(3),
      location         |-> Some([id |-> 7]),
      type             |-> Some("open"),
      requiredTrophies |-> Some(30),
      warFrequency     |-> Some("always"),
      warWinStreak     |-> Some(1),
      warWins          |-> Some(2),
      warTies          |-> Some(4),
      warLosses        |-> Some(5),
      isWarLogPublic   |-> Some(TRUE),
      description      |-> Some("text"),
      warLeague        |-> Some([id |-> 8]),
      rank             |-> Some(1),
      previousRank     |-> Some(2),
      labels           |-> Some(<<[id |-> 1], [id |-> 2]>>),
      memberList       |-> Some(<<[tag |-> <<"#", "A">>, level |-> 1],
                                  [tag |-> <<"#", "B">>, level |-> 1]>>) ]

ListKeys == {"labels", "memberList"}

\* the keys the constructor of class c reads
ReadKeys(c) ==
    {KeysOf(c)[a] : a \in DOMAIN KeysOf(c)} \cup (IF c = "Clan" THEN ListKeys ELSE {})

\* the record in which the keys of gone are missing, those of null hold null
RecordWithout(c, gone, null) ==
    [ k \in ReadKeys(c) |->
        IF k \in null THEN None ELSE IF k \in gone THEN Missing ELSE Sample[k] ]

\* up to MaxGone keys missing or null, or every key missing
FieldRecords(c) ==
    UNION { {RecordWithout(c, gone, null) : null \in SUBSET gone} :
               gone \in {g \in SUBSET ReadKeys(c) : Cardinality(g) <= MaxGone} }
    \cup { RecordWithout(c, ReadKeys(c), {}) }

\* iter(None) of a generator expression over a null array
FromDataRaises(d) ==
    \/ data_get(d, "labels", Some(<<>>)) = None
    \/ data_get(d, "memberList", Some(<<>>)) = None

\* the constructor raised: there is no instance
NotConstructed == lastCall.op = "__init__" /\ lastCall.result = TypeError

InitFields ==
    /\ cls \in {"Clan", "RankedClan"}
    /\ data \in FieldRecords(cls)
    /\ fields = ScalarFields(cls, data)
    /\ points = fields.points
    /\ _labels = None
    /\ _members = None
    /\ IF cls = "Clan" /\ ~FromDataRaises(data)
       THEN /\ __iter_labels = _from_data(data).__iter_labels
            /\ __iter_members = _from_data(data).__iter_members
            /\ labelCtor = _from_data(data).labelCtor
            /\ memberCtor = _from_data(data).memberCtor
       ELSE /\ __iter_labels = 1
            /\ __iter_members = 1
            /\ labelCtor = <<>>
            /\ memberCtor = <<>>
    /\ labelsDrains = 0
    /\ membersDrains = 0
    /\ labelsStores = 0
    /\ membersStores = 0
    /\ labelsAccessed = FALSE
    /\ membersAccessed = FALSE
    /\ firstLabels = None
    /\ firstMembers = None
    /\ lastCall = [op |-> "__init__", arg |-> None,
                   result |-> IF cls = "Clan" /\ FromDataRaises(data) THEN TypeError ELSE None,
                   pre |-> None, repeat |-> FALSE]
    /\ label_cls = "Label"
    /\ member_cls = "ClanMember"
    /\ gen_cls = Captured(label_cls, member_cls)
    /\ labelsBuiltBy = "none"
    /\ membersBuiltBy = "none"
    /\ fails = [labels |-> {}, members |-> {}]
    /\ threads = NoThreads

\* reading attribute a of the instance
read_field(a) ==
    /\ lastCall' = [op |-> "read", arg |-> a, result |-> fields[a],
                    pre |-> None, repeat |-> FALSE]
    /\ UNCHANGED <<fixed, labelSide, memberSide, label_cls, member_cls, threads>>

NextFields ==
    \/ ~NotConstructed /\ cls = "Clan" /\ labels
    \/ ~NotConstructed /\ cls = "Clan" /\ members
    \/ ~NotConstructed /\ \E a \in DOMAIN fields : read_field(a)

SpecFields == InitFields /\ [][NextFields]_vars

----------------------------------------------------------------------------
(* Records that vary in their member list only, for the lookups *)

LookupRecords ==
    { [clanPoints |-> Some(10), labels |-> Some(<<[id |-> 1]>>), memberList |-> Some(ms)] :
         ms \in SeqsUpTo(MemberRecords, MaxMembers) }

InitLookup ==
    /\ data \in LookupRecords
    /\ cls = "Clan"
    /\ fields = ScalarFields("Clan", data)
    /\ label_cls = "Label"
    /\ member_cls = "ClanMember"
    /\ gen_cls = Captured(label_cls, member_cls)
    /\ points = _from_data(data).points
    /\ __iter_labels = _from_data(data).__iter_labels
    /\ __iter_members = _from_data(data).__iter_members
    /\ labelCtor = _from_data(data).labelCtor
    /\ memberCtor = _from_data(data).memberCtor
    /\ _labels = None
    /\ _members = None
    /\ labelsDrains = 0
    /\ membersDrains = 0
    /\ labelsStores = 0
    /\ membersStores = 0
    /\ labelsAccessed = FALSE
    /\ membersAccessed = FALSE
    /\ firstLabels = None
    /\ firstMembers = None
    /\ labelsBuiltBy = "none"
    /\ membersBuiltBy = "none"
    /\ fails = [labels |-> {}, members |-> {}]
    /\ threads = NoThreads
    /\ lastCall = [op |-> "__init__", arg |-> None, result |-> None,
                   pre |-> None, repeat |-> FALSE]

SpecLookup == InitLookup /\ [][Next]_vars

----------------------------------------------------------------------------
(* Assigned element classes, rejected tags and raising element constructors *)

\* the classes label_cls and member_cls may hold
LabelClasses == {"Label", "MyLabel"}

MemberClasses == {"ClanMember", "MyMember"}

\* tags correct_tag rejects
BadTags == { <<"#", "!">>, <<" ">> }

\* the 'labels' and 'memberList' arrays of the records of this part
FaultLabels == { <<>>, <<[id |-> 1]>>, <<[id |-> 1], [id |-> 2]>> }

FaultMembers ==
    { <<>>,
      <<[tag |-> <<"#", "A">>, level |-> 1]>>,
      <<[tag |-> <<"#", "A">>, level |-> 1], [tag |-> <<"#", "B">>, level |-> 1]>>,
      <<[tag |-> <<"#", "A">>, level |-> 1], [tag |-> <<"#", "B">>, level |-> 1],
        [tag |-> <<"#", "A">>, level |-> 2]>> }

FaultRecords ==
    { [clanPoints |-> Some(10), labels |-> Some(ls), memberList |-> Some(ms)] :
         ls \in FaultLabels, ms \in FaultMembers }

InitFaults ==
    /\ data \in FaultRecords
    /\ cls = "Clan"
    /\ fields = ScalarFields("Clan", data)
    /\ label_cls = "Label"
    /\ member_cls = "ClanMember"
    /\ gen_cls = Captured(label_cls, member_cls)
    /\ points = _from_data(data).points
    /\ __iter_labels = _from_data(data).__iter_labels
    /\ __iter_members = _from_data(data).__iter_members
    /\ labelCtor = _from_data(data).labelCtor
    /\ memberCtor = _from_data(data).memberCtor
    /\ _labels = None
    /\ _members = None
    /\ labelsDrains = 0
    /\ membersDrains = 0
    /\ labelsStores = 0
    /\ membersStores = 0
    /\ labelsAccessed = FALSE
    /\ membersAccessed = FALSE
    /\ firstLabels = None
    /\ firstMembers = None
    /\ labelsBuiltBy = "none"
    /\ membersBuiltBy = "none"
    /\ fails \in { [labels |-> fl, members |-> fm] :
                      fl \in SUBSET (1..Len(labelsSource(data))),
                      fm \in SUBSET (1..Len(memberSource(data))) }
    /\ threads = NoThreads
    /\ lastCall = [op |-> "__init__", arg |-> None, result |-> None,
                   pre |-> None, repeat |-> FALSE]

\* clan.label_cls = c
set_label_cls(c) ==
    /\ label_cls' = c
    /\ lastCall' = [op |-> "set_label_cls", arg |-> c, result |-> None,
                    pre |-> None, repeat |-> FALSE]
    /\ UNCHANGED <<fixed, labelSide, memberSide, member_cls, threads>>

\* clan.member_cls = c
set_member_cls(c) ==
    /\ member_cls' = c
    /\ lastCall' = [op |-> "set_member_cls", arg |-> c, result |-> None,
                    pre |-> None, repeat |-> FALSE]
    /\ UNCHANGED <<fixed, labelSide, memberSide, label_cls, threads>>

NextFaults ==
    \/ labels
    \/ members
    \/ \E tag \in TagInputs \cup BadTags : get_member(tag)
    \/ \E attrs \in AttrSets : get_member_by(attrs)
    \/ \E c \in LabelClasses : set_label_cls(c)
    \/ \E c \in MemberClasses : set_member_cls(c)

SpecFaults == InitFaults /\ [][NextFaults]_vars

----------------------------------------------------------------------------
(* Two callers that run labels, members and get_member statement by statement *)

Callers == {1, 2}

ThreadOps == {"labels", "members", "get_member"}

\* the tag the callers of get_member pass
ProbeTag == <<"#", "A">>

\* the collection an operation reads
SideOf(op) == IF op = "labels" THEN "labels" ELSE "members"

CacheOf(side) == IF side = "labels" THEN _labels ELSE _members

SourceOf(side) == IF side = "labels" THEN labelsSource(data) ELSE memberSource(data)

PosOf(side) == IF side = "labels" THEN __iter_labels ELSE __iter_members

\* the element constructor call of a generator on sub-record i
ElementOf(side, i) ==
    IF side = "labels" THEN Label(labelsSource(data)[i], i)
    ELSE ClanMember(memberSource(data)[i], i)

\* the test on the cache slot an operation starts with
UsesCache(op, cache) ==
    IF op = "labels" THEN LabelsCached(cache)
    ELSE IF op = "members" THEN MembersCached(cache)
    ELSE ~NotDictMembers(cache)

\* a first access of another caller is under way on this collection
Overlaps(t, side) ==
    \E u \in Callers \ {t} :
        /\ threads.pc[u] \in {"loop", "frame", "store"}
        /\ SideOf(threads.op[u]) = side

\* a generator is running in the frame of a caller: next() on it raises ValueError
GeneratorBusy(side) == threads.busy[side] # 0

\* every caller loops over the source array with a cursor of its own
NextIndexOwn(t, side) == Len(threads.acc[t]) + 1

\* the sub-record the shared generator takes next
NextIndex(t, side) == PosOf(side)

InitThreads ==
    /\ data \in FaultRecords
    /\ cls = "Clan"
    /\ fields = ScalarFields("Clan", data)
    /\ label_cls = "Label"
    /\ member_cls = "ClanMember"
    /\ gen_cls = Captured(label_cls, member_cls)
    /\ points = _from_data(data).points
    /\ __iter_labels = _from_data(data).__iter_labels
    /\ __iter_members = _from_data(data).__iter_members
    /\ labelCtor = _from_data(data).labelCtor
    /\ memberCtor = _from_data(data).memberCtor
    /\ _labels = None
    /\ _members = None
    /\ labelsDrains = 0
    /\ membersDrains = 0
    /\ labelsStores = 0
    /\ membersStores = 0
    /\ labelsAccessed = FALSE
    /\ membersAccessed = FALSE
    /\ firstLabels = None
    /\ firstMembers = None
    /\ labelsBuiltBy = "none"
    /\ membersBuiltBy = "none"
    /\ fails = [labels |-> {}, members |-> {}]
    /\ threads = [pc |-> [t \in Callers |-> "idle"],
                  op |-> [t \in Callers |-> "none"],
                  acc |-> [t \in Callers |-> <<>>],
                  busy |-> [labels |-> 0, members |-> 0],
                  raced |-> [labels |-> FALSE, members |-> FALSE]]
    /\ lastCall = [op |-> "__init__", arg |-> None, result |-> None,
                   pre |-> None, repeat |-> FALSE]

\* caller t enters op and reads the cache slot: it returns from the cache, or
\* starts the list() call or the dict comprehension on the generator
call(t, op) ==
    LET side == SideOf(op)
        hit == UsesCache(op, CacheOf(side))
    IN  /\ threads.pc[t] = "idle"
        /\ threads' = [threads EXCEPT !.pc[t] = IF hit THEN "done" ELSE "loop",
                                      !.op[t] = op,
                                      !.raced[side] = @ \/ (~hit /\ Overlaps(t, side))]
        /\ IF side = "labels"
           THEN /\ labelsAccessed' = TRUE
                /\ labelsDrains' = labelsDrains + (IF hit THEN 0 ELSE 1)
                /\ UNCHANGED <<membersAccessed, membersDrains>>
           ELSE /\ membersAccessed' = TRUE
                /\ membersDrains' = membersDrains + (IF hit THEN 0 ELSE 1)
                /\ UNCHANGED <<labelsAccessed, labelsDrains>>
        /\ UNCHANGED <<_labels, __iter_labels, labelCtor, labelsStores, firstLabels,
                       labelsBuiltBy, _members, __iter_members, memberCtor,
                       membersStores, firstMembers, membersBuiltBy>>
        /\ UNCHANGED <<fixed, label_cls, member_cls, lastCall>>

\* caller t calls next() on the generator: ValueError when the generator runs in
\* another frame, the end of the loop when it is exhausted, else the generator
\* takes the next sub-record and calls the element constructor on it
resume(t) ==
    LET side == SideOf(threads.op[t])
        i == NextIndex(t, side)
    IN  /\ threads.pc[t] = "loop"
        /\ IF GeneratorBusy(side)
           THEN /\ threads' = [threads EXCEPT !.pc[t] = "raised"]
                /\ UNCHANGED <<__iter_labels, labelCtor, __iter_members, memberCtor>>
           ELSE IF i > Len(SourceOf(side))
           THEN /\ threads' = [threads EXCEPT !.pc[t] = "store"]
                /\ UNCHANGED <<__iter_labels, labelCtor, __iter_members, memberCtor>>
           ELSE /\ threads' = [threads EXCEPT !.pc[t] = "frame", !.busy[side] = t]
                /\ IF side = "labels"
                   THEN /\ __iter_labels' = i + 1
                        /\ labelCtor' = [labelCtor EXCEPT ![i] = @ + 1]
                        /\ UNCHANGED <<__iter_members, memberCtor>>
                   ELSE /\ __iter_members' = i + 1
                        /\ memberCtor' = [memberCtor EXCEPT ![i] = @ + 1]
                        /\ UNCHANGED <<__iter_labels, labelCtor>>
        /\ UNCHANGED <<_labels, labelsDrains, labelsStores, labelsAccessed, firstLabels,
                       labelsBuiltBy, _members, membersDrains, membersStores,
                       membersAccessed, firstMembers, membersBuiltBy>>
        /\ UNCHANGED <<fixed, label_cls, member_cls, lastCall>>

\* the generator yields the element it built to the loop of caller t
yield_element(t) ==
    LET side == SideOf(threads.op[t])
    IN  /\ threads.pc[t] = "frame"
        /\ threads' = [threads EXCEPT !.pc[t] = "loop",
                                      !.acc[t] = Append(@, ElementOf(side, PosOf(side) - 1)),
                                      !.busy[side] = 0]
        /\ UNCHANGED <<fixed, labelSide, memberSide, label_cls, member_cls, lastCall>>

\* caller t assigns what its loop collected to the cache slot and returns
store(t) ==
    LET side == SideOf(threads.op[t])
    IN  /\ threads.pc[t] = "store"
        /\ threads' = [threads EXCEPT !.pc[t] = "done"]
        /\ IF side = "labels"
           THEN /\ _labels' = Some(threads.acc[t])
                /\ labelsStores' = labelsStores + 1
                /\ labelsBuiltBy' = IF threads.acc[t] = <<>> THEN labelsBuiltBy
                                    ELSE gen_cls.labels
                /\ UNCHANGED <<_members, membersStores, membersBuiltBy>>
           ELSE /\ _members' = Some(DictOf(<<>>, threads.acc[t]))
                /\ membersStores' = membersStores + 1
                /\ membersBuiltBy' = IF threads.acc[t] = <<>> THEN membersBuiltBy
                                     ELSE gen_cls.members
                /\ UNCHANGED <<_labels, labelsStores, labelsBuiltBy>>
        /\ UNCHANGED <<__iter_labels, labelCtor, labelsDrains, labelsAccessed, firstLabels,
                       __iter_members, memberCtor, membersDrains, membersAccessed,
                       firstMembers>>
        /\ UNCHANGED <<fixed, label_cls, member_cls, lastCall>>

NextThreads ==
    \E t \in Callers :
        \/ \E op \in ThreadOps : call(t, op)
        \/ resume(t)
        \/ yield_element(t)
        \/ store(t)

SpecThreads == InitThreads /\ [][NextThreads]_vars

----------------------------------------------------------------------------
(* Properties *)

\* C1: every 'labels' and 'memberList' sub-record has its element constructor
\* invoked at most once over the life of the instance, and exactly once as soon
\* as its collection has been accessed, however many accesses follow.
C1_ConstructedOnce ==
    /\ DOMAIN labelCtor = 1..Len(labelsSource(data))
    /\ DOMAIN memberCtor = 1..Len(memberSource(data))
    /\ \A i \in DOMAIN labelCtor :
          labelCtor[i] <= 1 /\ (labelsAccessed => labelCtor[i] = 1)
    /\ \A i \in DOMAIN memberCtor :
          memberCtor[i] <= 1 /\ (membersAccessed => memberCtor[i] = 1)

\* a repeated access to both collections of a record with several sub-records
C1_Witness ==
    /\ Len(memberSource(data)) >= 2
    /\ Len(labelsSource(data)) >= 2
    /\ labelsAccessed
    /\ lastCall.op = "get_member"
    /\ lastCall.repeat

\* C2 (as claimed): once a collection is materialized, no step touches its
\* pending sequence again or assigns its cache slot again, also when the
\* materialized value is empty.
C2_NeverRederived ==
    [][ /\ _members # None =>
              /\ _members' = _members
              /\ membersDrains' = membersDrains
              /\ membersStores' = membersStores
        /\ _labels # None =>
              /\ _labels' = _labels
              /\ labelsDrains' = labelsDrains
              /\ labelsStores' = labelsStores ]_vars

\* C3: every read of labels returns what the first read of labels returned, and
\* every read of members what the first read of members returned.
C3_IdenticalResults ==
    /\ lastCall.op = "labels" => lastCall.result = firstLabels.val
    /\ lastCall.op = "members" => lastCall.result = firstMembers.val

\* a second or later read of a non-empty members collection
C3_Witness ==
    /\ lastCall.op = "members"
    /\ lastCall.repeat
    /\ Len(lastCall.result) >= 2
    /\ labelsAccessed

----------------------------------------------------------------------------

\* the members mapping of an instance on which members was enumerated first
EnumeratedFirst ==
    DictOf(<<>>, [i \in 1..Len(memberSource(data)) |-> ClanMember(memberSource(data)[i], i)])

\* C4: get_member and get_member_by return what they return on an instance of
\* the same record on which members was enumerated first, whether or not the
\* cache was materialized before the call.
C4_TransparentTrigger ==
    /\ (lastCall.op = "members" /\ lastCall.pre = None) =>
          /\ _members = Some(EnumeratedFirst)
          /\ __iter_members = Len(memberSource(data)) + 1
    /\ lastCall.op = "get_member" =>
          lastCall.result =
             GetMemberReturn(Some(EnumeratedFirst), Len(memberSource(data)) + 1, lastCall.arg)
    /\ lastCall.op = "get_member_by" =>
          lastCall.result = GetMemberByReturn(DictValues(EnumeratedFirst), lastCall.arg)

\* the first access to members is a lookup by key that finds a member
C4_Witness ==
    /\ lastCall.op = "get_member"
    /\ lastCall.pre = None
    /\ lastCall.result # None
    /\ Len(memberSource(data)) >= 2

----------------------------------------------------------------------------

\* the tags carried by the 'memberList' sub-records
SourceTags == {memberSource(data)[i].tag : i \in 1..Len(memberSource(data))}

\* the sub-records that carry tag t
Carrying(t) == {i \in 1..Len(memberSource(data)) : memberSource(data)[i].tag = t}

\* the member built from the latest sub-record that carries tag t
LatestOf(t) ==
    LET i == CHOOSE k \in Carrying(t) : \A j \in Carrying(t) : j <= k
    IN  ClanMember(memberSource(data)[i], i)

\* C5 (as claimed): members has one element per unique tag, and get_member(t)
\* for a tag t carried by sub-records returns the member built from the latest
\* of them.
C5_LastWriteWinsAnyTag ==
    /\ lastCall.op = "members" => Len(lastCall.result) = Cardinality(SourceTags)
    /\ (lastCall.op = "get_member" /\ lastCall.arg \in SourceTags) =>
          lastCall.result = Some(LatestOf(lastCall.arg))

\* C5 (amended): members has one element per unique tag, and get_member(t) for
\* a tag t that is carried by sub-records and is left unchanged by NormalizeTag
\* returns the member built from the latest of them.
C5_LastWriteWins ==
    /\ lastCall.op = "members" => Len(lastCall.result) = Cardinality(SourceTags)
    /\ (lastCall.op = "get_member" /\ lastCall.arg \in SourceTags
           /\ NormalizeTag(lastCall.arg) = lastCall.arg) =>
          lastCall.result = Some(LatestOf(lastCall.arg))

\* a lookup of a tag carried by several sub-records of a record with other tags
C5_Witness ==
    /\ lastCall.op = "get_member"
    /\ NormalizeTag(lastCall.arg) = lastCall.arg
    /\ Cardinality(Carrying(lastCall.arg)) >= 2
    /\ Cardinality(SourceTags) >= 2
    /\ lastCall.result # None

----------------------------------------------------------------------------

\* C6: get_member never raises; for a tag whose normal form is no key of the
\* mapping (empty, just materialized or materialized before) it returns None.
C6_NotFoundIsNone ==
    lastCall.op = "get_member" =>
        /\ lastCall.result # KeyError
        /\ ~(\E i \in 1..Len(memberSource(data)) :
                memberSource(data)[i].tag = NormalizeTag(lastCall.arg)) =>
              lastCall.result = None

\* a lookup of an absent tag in a materialized, non-empty mapping
C6_Witness ==
    /\ lastCall.op = "get_member"
    /\ lastCall.pre # None
    /\ lastCall.pre.val # <<>>
    /\ lastCall.result = None

----------------------------------------------------------------------------

\* C7: get_member(t) returns what a following get_member(NormalizeTag(t))
\* returns, and what get_member(u) returns for every u with the same normal form.
C7_NormalizedLookup ==
    lastCall.op = "get_member" =>
        /\ lastCall.result =
              GetMemberReturn(_members, __iter_members, NormalizeTag(lastCall.arg))
        /\ \A u \in TagInputs :
              NormalizeTag(u) = NormalizeTag(lastCall.arg) =>
                 lastCall.result = GetMemberReturn(_members, __iter_members, u)

\* a lookup with a tag that is not in normal form finds a member
C7_Witness ==
    /\ lastCall.op = "get_member"
    /\ NormalizeTag(lastCall.arg) # lastCall.arg
    /\ lastCall.result # None

----------------------------------------------------------------------------

\* every supplied attribute equals the member's attribute
Supplied(m, attrs) ==
    /\ attrs.tag = None \/ attrs.tag.val = m.tag
    /\ attrs.level = None \/ attrs.level.val = m.level

\* the positions of the materialized members that match attrs
Hits(attrs) ==
    {i \in 1..Len(_members.val) : Supplied(_members.val[i].val, attrs)}

\* C8: get_member_by returns the first member, in the iteration order of the
\* materialized collection, that matches every supplied attribute, and None
\* when no member matches.
C8_FirstMatch ==
    lastCall.op = "get_member_by" =>
        /\ _members # None
        /\ IF Hits(lastCall.arg) = {}
           THEN lastCall.result = None
           ELSE \E i \in Hits(lastCall.arg) :
                   /\ lastCall.result = Some(_members.val[i].val)
                   /\ \A j \in Hits(lastCall.arg) : i <= j

\* several members match a supplied attribute
C8_Witness ==
    /\ lastCall.op = "get_member_by"
    /\ lastCall.arg.level # None
    /\ lastCall.pre = None
    /\ Cardinality(Hits(lastCall.arg)) >= 2

----------------------------------------------------------------------------

\* C9: labels returns one element per 'labels' sub-record, the i-th built from
\* the i-th sub-record, duplicates included.
C9_LabelsKeepOrder ==
    lastCall.op = "labels" =>
        /\ Len(lastCall.result) = Len(labelsSource(data))
        /\ \A i \in 1..Len(labelsSource(data)) :
              lastCall.result[i] = Label(labelsSource(data)[i], i)

\* labels of a record whose array repeats a sub-record
C9_Witness ==
    /\ lastCall.op = "labels"
    /\ Len(labelsSource(data)) >= 2
    /\ labelsSource(data)[1] = labelsSource(data)[2]

----------------------------------------------------------------------------

\* C10: until the first access to a collection its generator has not started,
\* no element constructor has been invoked and its cache slot is absent,
\* whatever scalar fields were read.
C10_NotDrainedAtConstruction ==
    /\ ~labelsAccessed =>
          /\ _labels = None
          /\ __iter_labels = 1
          /\ labelsDrains = 0
          /\ \A i \in DOMAIN labelCtor : labelCtor[i] = 0
    /\ ~membersAccessed =>
          /\ _members = None
          /\ __iter_members = 1
          /\ membersDrains = 0
          /\ \A i \in DOMAIN memberCtor : memberCtor[i] = 0

\* a scalar field was read from a fresh instance with pending sub-records
C10_Witness ==
    /\ lastCall.op = "points"
    /\ ~labelsAccessed
    /\ ~membersAccessed
    /\ Len(labelsSource(data)) >= 1
    /\ Len(memberSource(data)) >= 1

----------------------------------------------------------------------------

\* the value the record holds under the key attribute a is read from
Held(a) == data[KeysOf(cls)[a]]

\* C11 (as claimed): whatever keys of the record are missing or null, the
\* constructor of Clan or RankedClan raises nothing, every attribute of a
\* missing or null key is None, and labels and members of a missing or null
\* array are empty.
C11_AbsentNeverRaises ==
    /\ lastCall.op = "__init__" => lastCall.result = None
    /\ \A a \in DOMAIN fields : Held(a) \in {Missing, None} => fields[a] = None
    /\ (cls = "Clan" /\ lastCall.op = "labels" /\ data.labels \in {Missing, None}) =>
          lastCall.result = <<>>
    /\ (cls = "Clan" /\ lastCall.op = "members" /\ data.memberList \in {Missing, None}) =>
          lastCall.result = <<>>

----------------------------------------------------------------------------

\* the record of a class with every key missing
NoKeys(c) == RecordWithout(c, ReadKeys(c), {})

\* C12: an attribute is None when its key is missing and holds the record's
\* value (resolved by try_enum for location and war_league) when the key has
\* one, each attribute by itself; labels and members of the record without
\* keys are empty.
C12_MissingIsUnknown ==
    /\ DOMAIN fields = DOMAIN KeysOf(cls)
    /\ \A a \in DOMAIN fields :
          /\ Held(a) = Missing => fields[a] = None
          /\ Held(a) \notin {Missing, None} =>
                /\ fields[a] # None
                /\ fields[a] = IF a \in DOMAIN EnumOf
                               THEN Some([enum |-> EnumOf[a], data |-> Held(a).val])
                               ELSE Held(a)
    /\ (data = NoKeys("Clan") /\ lastCall.op = "labels") => lastCall.result = <<>>
    /\ (data = NoKeys("Clan") /\ lastCall.op = "members") => lastCall.result = <<>>

\* an attribute of a missing key is read from a Clan whose other keys are present
C12_Witness ==
    /\ cls = "Clan"
    /\ data.clanPoints = Missing
    /\ data.warLeague = Missing
    /\ data.type = Sample.type
    /\ lastCall.op = "read"
    /\ lastCall.arg = "points"
    /\ lastCall.result = None
    /\ labelsAccessed
    /\ membersAccessed

\* C13 (as claimed): the elements a collection holds are of the type its class
\* attribute holds at the first access: on the step that materializes a
\* non-empty collection, the elements are built by the class label_cls
\* (member_cls) holds then, whatever was assigned to it since construction.
C13_ElementsOfAssignedClass ==
    [][ /\ (_labels = None /\ _labels' # None /\ ListLabels(__iter_labels) # <<>>)
            => labelsBuiltBy' = label_cls
        /\ (_members = None /\ _members' # None /\ DictMembers(__iter_members) # <<>>)
            => membersBuiltBy' = member_cls ]_vars

\* C14: when correct_tag rejects the tag passed to get_member, the call ends in
\* that error and leaves the instance as it was: the members cache slot keeps
\* its state (an unmaterialized cache stays unmaterialized), the pending
\* sequence is not consumed and no member constructor is invoked.
C14_RejectedTagChangesNothing ==
    [][ (lastCall'.op = "get_member" /\ Rejects(lastCall'.arg))
            => /\ lastCall'.result = InvalidTag
               /\ UNCHANGED <<_members, __iter_members, memberCtor, membersDrains,
                              membersStores, _labels, __iter_labels, labelCtor,
                              data, points, fields>> ]_vars

\* a rejected tag on an instance whose members were never accessed and whose
\* record has members
C14_Witness ==
    /\ lastCall.op = "get_member"
    /\ lastCall.result = InvalidTag
    /\ lastCall.pre = None
    /\ _members = None
    /\ __iter_members = 1
    /\ memberSource(data) # <<>>

\* an access to the members collection that reached the pending sequence
MembersDrainStep ==
    /\ lastCall'.op \in {"members", "get_member", "get_member_by"}
    /\ membersDrains' # membersDrains

\* an access to the labels collection that reached the pending sequence
LabelsDrainStep ==
    /\ lastCall'.op = "labels"
    /\ labelsDrains' # labelsDrains

\* C16: when an element constructor raises during the first materialization of
\* labels or members, the access ends in that exception, the cache slot stays
\* absent and the pending sequence is finished; the next access to that
\* collection stores and returns an empty collection and invokes no element
\* constructor.
C16_RaisingConstructor ==
    [][ /\ (LabelsRaises /\ LabelsDrainStep)
            => /\ _labels' = None
               /\ PendingLabels(__iter_labels') = <<>>
               /\ lastCall'.result = CtorError
        /\ (_members = None /\ MaterializeRaises /\ MembersDrainStep)
            => /\ _members' = None
               /\ PendingMembers(__iter_members') = <<>>
               /\ lastCall'.result = CtorError
        /\ (_labels = None /\ labelsDrains > 0 /\ LabelsDrainStep)
            => /\ labelCtor' = labelCtor
               /\ _labels' = Some(<<>>)
               /\ lastCall'.result = <<>>
        /\ (_members = None /\ membersDrains > 0 /\ MembersDrainStep)
            => /\ memberCtor' = memberCtor
               /\ _members' = Some(<<>>)
               /\ lastCall'.result = IF lastCall'.op = "members" THEN <<>> ELSE None
      ]_vars

\* both collections accessed again after a constructor raised on a sub-record
\* that was not the last: the caches are empty, a sub-record was never built
C16_Witness ==
    /\ fails.labels # {}
    /\ fails.members # {}
    /\ _labels = Some(<<>>)
    /\ _members = Some(<<>>)
    /\ \E i \in DOMAIN labelCtor : labelCtor[i] = 0
    /\ \E i \in DOMAIN memberCtor : memberCtor[i] = 0
    /\ lastCall.op = "members"
    /\ lastCall.result = <<>>

\* the callers whose loop took an element from the generator of a collection
Pulled(side) == {t \in Callers : SideOf(threads.op[t]) = side /\ threads.acc[t] # <<>>}

\* a stored cache holds every element of its source array (every tag, for members)
CacheComplete ==
    /\ _labels # None => _labels.val = PendingLabels(1)
    /\ _members # None => _members.val = DictMembers(1)

\* C15 (as claimed): with two callers interleaving at the check-cache, drain and
\* store steps, the pending sequence of a collection is consumed by one
\* materialization only and the cache, once stored, holds every element of the
\* source array.
C15_ConcurrentOneMaterialization ==
    /\ Cardinality(Pulled("labels")) <= 1
    /\ Cardinality(Pulled("members")) <= 1
    /\ CacheComplete

\* C15 (amended): with two callers interleaving, every sub-record still has its
\* element constructor invoked at most once; and as long as no first access to a
\* collection started while another was under way on it, its pending sequence
\* is consumed by one materialization only and its cache, once stored, holds
\* every element of the source array.
C15_ConcurrentConstructedOnce ==
    /\ \A i \in DOMAIN labelCtor : labelCtor[i] <= 1
    /\ \A i \in DOMAIN memberCtor : memberCtor[i] <= 1
    /\ ~threads.raced["labels"] =>
          /\ Cardinality(Pulled("labels")) <= 1
          /\ _labels # None => _labels.val = PendingLabels(1)
    /\ ~threads.raced["members"] =>
          /\ Cardinality(Pulled("members")) <= 1
          /\ _members # None => _members.val = DictMembers(1)

\* two callers raced on members and both stored: each took part of the
\* sequence, every member was built once
C15_Witness ==
    /\ threads.raced["members"]
    /\ Cardinality(Pulled("members")) = 2
    /\ \A t \in Callers : threads.pc[t] = "done"
    /\ membersStores = 2
    /\ \A i \in DOMAIN memberCtor : memberCtor[i] = 1
    /\ Len(memberSource(data)) >= 2

\* the members the members property returns in this state, as a set
MembersNow == {MembersReturn[i] : i \in 1..Len(MembersReturn)}

\* C17: key lookup and enumeration agree in every state: get_member(m.tag)
\* returns m for every member m of members whose tag is a fixed point of
\* NormalizeTag, and get_member(t) returns None or a member of members whose
\* stored tag equals NormalizeTag(t); the same holds of the result of the
\* get_member call just made.
C17_LookupAgreesWithMembers ==
    /\ \A m \in MembersNow :
          NormalizeTag(m.tag) = m.tag
             => GetMemberReturn(_members, __iter_members, m.tag) = Some(m)
    /\ \A t \in TagInputs :
          LET r == GetMemberReturn(_members, __iter_members, t)
          IN  r = None \/ (r.some /\ r.val \in MembersNow /\ r.val.tag = NormalizeTag(t))
    /\ lastCall.op = "get_member" =>
          \/ lastCall.result = None
          \/ /\ lastCall.result.some
             /\ lastCall.result.val \in MembersNow
             /\ lastCall.result.val.tag = NormalizeTag(lastCall.arg)

\* get_member found a member by a tag that normalization changed, in a clan
\* that also holds a member whose stored tag is not normalized
C17_Witness ==
    /\ lastCall.op = "get_member"
    /\ lastCall.result # None
    /\ lastCall.arg # NormalizeTag(lastCall.arg)
    /\ _members # None
    /\ \E m \in MembersNow : NormalizeTag(m.tag) # m.tag
    /\ \E m \in MembersNow : NormalizeTag(m.tag) = m.tag

\* C18: the two collections are independent: an access to labels leaves the
\* members cache slot and the members pending sequence unchanged; members,
\* get_member and get_member_by leave the labels cache slot and the labels
\* pending sequence unchanged; and no access changes a scalar field.
C18_AccessesAreFramed ==
    [][ /\ lastCall'.op = "labels"
            => UNCHANGED <<_members, __iter_members, memberCtor>>
        /\ lastCall'.op \in {"members", "get_member", "get_member_by"}
            => UNCHANGED <<_labels, __iter_labels, labelCtor>>
        /\ UNCHANGED <<data, points, fields>> ]_vars

\* labels materialized by an access made while members was still pending, on a
\* record with members and labels
C18_Witness ==
    /\ lastCall.op = "labels"
    /\ lastCall.pre = None
    /\ _labels # None
    /\ Len(labelsSource(data)) >= 1
    /\ _members = None
    /\ __iter_members = 1
    /\ Len(memberSource(data)) >= 2

============================================================================
